---------------------------- MODULE Spec2Model ----------------------------
(***************************************************************************)
(* Model of the documentation server docs/serve_docs.py: the GET handler   *)
(* DocumentationHandler.do_GET, the render sequence of serve_markdown, and *)
(* the pure helpers process_mermaid_blocks and generate_breadcrumb.        *)
(*                                                                         *)
(* Strings are sequences of one-character strings ("/", "a", ...); a few   *)
(* fixed multi-character literals of the source (a fence marker, an HTML   *)
(* tag written by the renderer) are single tokens of such a sequence.      *)
(* One behaviour is the handling of one GET request.                       *)
(***************************************************************************)
EXTENDS Integers, Sequences, FiniteSets, TLC

VARIABLES
    req,          \* the request target as the client composed it: [path, query, frag]
    rawPath,      \* self.path
    files,        \* the file system: the set of existing regular files (absolute, as segment lists)
    MARKDOWN_AVAILABLE,
    corpus,       \* which set of documents the .md files on disk are taken from
    fault,        \* the stage at which the environment raises an exception ("none": nowhere)
    pc,           \* position of the handler
    path,         \* do_GET's local `path` after normalisation
    md_path,      \* the argument do_GET gives to serve_markdown
    file_path,    \* serve_markdown's file_path (docs_root / path)
    doc,          \* the block structure of the document that was read (ghost)
    content,      \* serve_markdown's local `content`
    html_content, \* serve_markdown's local `html_content`
    title,
    breadcrumb,
    full_html,
    handled,      \* what serve_markdown returned: "none" (not returned), "true", "false"
    exc,          \* the text of the exception caught by serve_markdown ("none": none)
    stages,       \* the stages of the render sequence that have started, in order
    wire          \* what has been written to the client, in order

vars == <<req, rawPath, files, MARKDOWN_AVAILABLE, corpus, fault, pc, path, md_path,
          file_path, doc, content, html_content, title, breadcrumb, full_html,
          handled, exc, stages, wire>>

-----------------------------------------------------------------------------
(* String helpers: Python's str methods used by the handler.               *)

StartsWith(s, p) == Len(s) >= Len(p) /\ SubSeq(s, 1, Len(p)) = p

EndsWith(s, p) == Len(s) >= Len(p) /\ SubSeq(s, Len(s) - Len(p) + 1, Len(s)) = p

\* s.find(c) + 1: the first index of c in s, 0 when absent
Find(s, c) ==
    IF \E i \in 1..Len(s) : s[i] = c
    THEN CHOOSE i \in 1..Len(s) : s[i] = c /\ \A j \in 1..(i - 1) : s[j] # c
    ELSE 0

\* s.split(c)[0]
SplitHead(s, c) == IF Find(s, c) = 0 THEN s ELSE SubSeq(s, 1, Find(s, c) - 1)

\* s.split(c)
RECURSIVE Split(_, _)
Split(s, c) ==
    IF Find(s, c) = 0 THEN <<s>>
    ELSE <<SubSeq(s, 1, Find(s, c) - 1)>> \o Split(SubSeq(s, Find(s, c) + 1, Len(s)), c)

\* s.lstrip(c)
RECURSIVE LStrip(_, _)
LStrip(s, cs) == IF s # <<>> /\ s[1] \in cs THEN LStrip(Tail(s), cs) ELSE s

\* s.rstrip(c)
RECURSIVE RStrip(_, _)
RStrip(s, cs) ==
    IF s # <<>> /\ s[Len(s)] \in cs THEN RStrip(SubSeq(s, 1, Len(s) - 1), cs) ELSE s

\* s.strip(c)
Strip(s, cs) == RStrip(LStrip(s, cs), cs)

\* the characters str.strip() removes, among those of the model
Whitespace == {" ", "\n", "\t"}

RECURSIVE Concat(_)
Concat(ss) == IF ss = <<>> THEN <<>> ELSE Head(ss) \o Concat(Tail(ss))

-----------------------------------------------------------------------------
(* urllib.parse.unquote                                                    *)

HexDigits == {"0", "1", "2", "3", "4", "5", "6", "7", "8", "9",
              "a", "b", "c", "d", "e", "f", "A", "B", "C", "D", "E", "F"}

\* the character of a percent-escape. The escapes of the model's requests are
\* %23, %25, %2E, %2F and %3F; any other octet is kept as one opaque character.
HexChar(h1, h2) ==
    CASE h1 = "2" /\ h2 = "3" -> "#"
      [] h1 = "2" /\ h2 = "5" -> "%"
      [] h1 = "2" /\ h2 \in {"E", "e"} -> "."
      [] h1 = "2" /\ h2 \in {"F", "f"} -> "/"
      [] h1 = "3" /\ h2 \in {"F", "f"} -> "?"
      [] OTHER -> "<octet>"

RECURSIVE unquote(_)
unquote(s) ==
    IF s = <<>> THEN <<>>
    ELSE IF s[1] = "%" /\ Len(s) >= 3 /\ s[2] \in HexDigits /\ s[3] \in HexDigits
         THEN <<HexChar(s[2], s[3])>> \o unquote(SubSeq(s, 4, Len(s)))
         ELSE <<s[1]>> \o unquote(Tail(s))

-----------------------------------------------------------------------------
(* Literals of the source                                                  *)

DotHtml == <<".", "h", "t", "m", "l">>
DotMd == <<".", "m", "d">>
IndexHtml == <<"/", "i", "n", "d", "e", "x">> \o DotHtml

\* docs_root, as a string and as its segments: the directory /d
docs_root == <<"/", "d">>
docs_root_segs == << <<"d">> >>


-----------------------------------------------------------------------------
(* do_GET: normalisation of the request path                               *)

\* lines 360-370: decode, cut at the first "?" and the first "#", map "/" to /index.html
NormalizePath(raw) ==
    LET decoded == unquote(raw)
        noQuery == IF Find(decoded, "?") # 0 THEN SplitHead(decoded, "?") ELSE decoded
        noFrag  == IF Find(noQuery, "#") # 0 THEN SplitHead(noQuery, "#") ELSE noQuery
    IN  IF noFrag = <<"/">> THEN IndexHtml ELSE noFrag

\* line 374: path[:-5] + '.md'
MdPathOf(p) == SubSeq(p, 1, Len(p) - 5) \o DotMd

\* lines 388-389: one leading "/" is removed
RelPathOf(p) == IF StartsWith(p, <<"/">>) THEN Tail(p) ELSE p

\* line 391, pathlib's `/`: an absolute right operand replaces the left one
PathJoin(root, rel) ==
    IF StartsWith(rel, <<"/">>) THEN rel ELSE root \o <<"/">> \o rel

-----------------------------------------------------------------------------
(* The file system                                                         *)

\* the directories: every proper prefix of an existing file
Dirs(fs) == UNION {{SubSeq(f, 1, k) : k \in 0..(Len(f) - 1)} : f \in fs}

\* The operating system's lookup of a path given as components, from directory
\* cur: "" and "." stay, ".." goes to the parent, a name descends; every
\* component but the last must be a directory. ENOENT when the lookup fails.
ENOENT == << <<"!ENOENT">> >>

RECURSIVE Walk(_, _, _)
Walk(fs, cur, comps) ==
    IF comps = <<>> THEN cur
    ELSE LET c == Head(comps)
             rest == Tail(comps)
         IN  IF c = <<>> \/ c = <<".">> THEN Walk(fs, cur, rest)
             ELSE IF c = <<".", ".">>
                  THEN Walk(fs, IF cur = <<>> THEN cur ELSE SubSeq(cur, 1, Len(cur) - 1), rest)
             ELSE LET nxt == cur \o <<c>>
                  IN  IF nxt \in Dirs(fs) THEN Walk(fs, nxt, rest)
                      ELSE IF nxt \in fs /\ rest = <<>> THEN nxt
                      ELSE ENOENT

\* the file or directory an absolute path string names, ENOENT if none
Lookup(fs, p) == Walk(fs, <<>>, Split(p, "/"))

\* Path.exists()
Exists(fs, p) == Lookup(fs, p) # ENOENT

\* open(file_path) succeeds on a regular file only
IsFile(fs, p) == Lookup(fs, p) \in fs

-----------------------------------------------------------------------------
(* super().do_GET(): SimpleHTTPRequestHandler on the raw request path      *)

\* posixpath.normpath of an absolute path, as components: "" and "." are
\* dropped and ".." removes the component before it
RECURSIVE NormComps(_, _)
NormComps(acc, comps) ==
    IF comps = <<>> THEN acc
    ELSE LET c == Head(comps)
         IN  IF c = <<>> \/ c = <<".">> THEN NormComps(acc, Tail(comps))
             ELSE IF c = <<".", ".">>
                  THEN NormComps(IF acc = <<>> THEN acc ELSE SubSeq(acc, 1, Len(acc) - 1),
                                 Tail(comps))
             ELSE NormComps(acc \o <<c>>, Tail(comps))

\* translate_path: query and fragment are cut first, then the path is decoded,
\* normalised and taken below the served directory (the working directory,
\* which main() sets to docs_root)
translate_path(raw) ==
    LET cut == SplitHead(SplitHead(raw, "?"), "#")
    IN  [file |-> docs_root_segs \o NormComps(<<>>, Split(unquote(cut), "/")),
         trailing_slash |-> EndsWith(RStrip(cut, Whitespace), <<"/">>)]

Response(kind, status, data) == [kind |-> kind, status |-> status, data |-> data]

\* send_head and the copy of the file: the response of static serving
StaticResponse(fs, raw) ==
    LET t == translate_path(raw)
        index == t.file \o << <<"i", "n", "d", "e", "x">> \o DotHtml >>
    IN  IF t.file \in Dirs(fs) \/ t.file = docs_root_segs
        THEN IF ~t.trailing_slash THEN Response("redirect", 301, <<>>)
             ELSE IF index \in fs THEN Response("static", 200, index)
             ELSE Response("listing", 200, t.file)
        ELSE IF t.file \in fs /\ ~t.trailing_slash THEN Response("static", 200, t.file)
        ELSE Response("error", 404, <<"File not found">>)


-----------------------------------------------------------------------------
(* The markdown renderer, md.convert: fenced code blocks and escaping.     *)
(* A fence line is one token, written with the tilde form of the fence.    *)

FenceMermaid == "~~~mermaid"
FencePython == "~~~python"
Fence == "~~~"
PreOpen == "<pre"
PreAttr == " class=\"codehilite\""
Gt == ">"
CodeMermaid == "<code class=\"language-mermaid\">"
CodePython == "<code class=\"language-python\">"
CodeClose == "</code></pre>"
DivOpen == "<div class=\"mermaid\">"
DivClose == "</div>"

\* the code-block encoder: & < > " become entities
EscapeChar(c) ==
    CASE c = "&" -> <<"&", "a", "m", "p", ";">>
      [] c = "<" -> <<"&", "l", "t", ";">>
      [] c = ">" -> <<"&", "g", "t", ";">>
      [] c = "\"" -> <<"&", "q", "u", "o", "t", ";">>
      [] OTHER -> <<c>>

RECURSIVE Escape(_)
Escape(s) == IF s = <<>> THEN <<>> ELSE EscapeChar(Head(s)) \o Escape(Tail(s))

\* the index of the fence line closing the block opened at s[1], 0 if none
ClosingFence(s) ==
    LET closes(k) == s[k] = Fence /\ s[k - 1] = "\n" /\ (k = Len(s) \/ s[k + 1] = "\n")
    IN  IF \E k \in 3..Len(s) : closes(k)
        THEN CHOOSE k \in 3..Len(s) : closes(k) /\ \A j \in 3..(k - 1) : ~closes(j)
        ELSE 0

\* what the renderer writes for a fenced block (the form named at line 448)
CodeBlock(fence, body) ==
    <<PreOpen, PreAttr, Gt, IF fence = FenceMermaid THEN CodeMermaid ELSE CodePython>>
        \o Escape(body) \o <<CodeClose>>

\* md.convert(content): a fenced block becomes <pre><code class="language-X">
\* with its body escaped; all other text is written escaped (block markup
\* other than fences is not modelled). bol: s starts at the beginning of a line.
RECURSIVE MdConvert(_, _)
MdConvert(s, bol) ==
    IF s = <<>> THEN <<>>
    ELSE IF bol /\ s[1] \in {FenceMermaid, FencePython} /\ Len(s) >= 2 /\ s[2] = "\n"
            /\ ClosingFence(s) # 0
         THEN LET k == ClosingFence(s)
              IN  CodeBlock(s[1], SubSeq(s, 3, k - 1))
                    \o MdConvert(SubSeq(s, k + 2, Len(s)), TRUE)
         ELSE EscapeChar(s[1]) \o MdConvert(Tail(s), s[1] = "\n")

-----------------------------------------------------------------------------
(* process_mermaid_blocks                                                  *)

\* html.unescape's table, for the entities the encoder writes
Html5(name) ==
    CASE name \in {<<"a", "m", "p", ";">>, <<"a", "m", "p">>} -> <<"&">>
      [] name \in {<<"l", "t", ";">>, <<"l", "t">>} -> <<"<">>
      [] name \in {<<"g", "t", ";">>, <<"g", "t">>} -> <<">">>
      [] name \in {<<"q", "u", "o", "t", ";">>, <<"q", "u", "o", "t">>} -> <<"\"">>
      [] OTHER -> <<>>

\* the characters an entity name is made of, among those of the model
NameChars == {"a", "b", "g", "l", "m", "o", "p", "q", "t", "u", "x"}

\* the longest run of name characters at the start of s (at most 32)
RECURSIVE NameRun(_, _)
NameRun(s, n) ==
    IF s # <<>> /\ n < 32 /\ s[1] \in NameChars THEN <<s[1]>> \o NameRun(Tail(s), n + 1)
    ELSE <<>>

\* the longest proper prefix of group (length >= 2) that names an entity, 0 if none
EntityPrefix(group) ==
    LET ok(x) == Html5(SubSeq(group, 1, x)) # <<>>
    IN  IF \E x \in 2..(Len(group) - 1) : ok(x)
        THEN CHOOSE x \in 2..(Len(group) - 1) : ok(x) /\ \A y \in (x + 1)..(Len(group) - 1) : ~ok(y)
        ELSE 0

\* html.unescape, for named references (the model writes no numeric ones)
RECURSIVE unescape(_)
unescape(s) ==
    IF s = <<>> THEN <<>>
    ELSE IF s[1] # "&" THEN <<s[1]>> \o unescape(Tail(s))
    ELSE LET run == NameRun(Tail(s), 0)
             semi == Len(s) > 1 + Len(run) /\ s[2 + Len(run)] = ";"
             group == IF semi THEN run \o <<";">> ELSE run
             rest == SubSeq(s, 2 + Len(group), Len(s))
         IN  IF run = <<>> THEN <<"&">> \o unescape(Tail(s))
             ELSE IF Html5(group) # <<>> THEN Html5(group) \o unescape(rest)
             ELSE IF EntityPrefix(group) # 0
                  THEN Html5(SubSeq(group, 1, EntityPrefix(group)))
                         \o SubSeq(group, EntityPrefix(group) + 1, Len(group))
                         \o unescape(rest)
             ELSE <<"&">> \o group \o unescape(rest)

\* the tokens in which ">" occurs, and those in which it occurs only at the end
HasGt == {Gt, CodeMermaid, CodePython, CodeClose, DivOpen, DivClose}
EndsTag == {Gt, CodeMermaid, CodePython, DivOpen, DivClose}

\* the first index >= from with s[i] in set, 0 if none
FirstIn(s, from, set) ==
    IF \E i \in from..Len(s) : s[i] \in set
    THEN CHOOSE i \in from..Len(s) : s[i] \in set /\ \A j \in from..(i - 1) : s[j] \notin set
    ELSE 0

\* MermaidMatch with a greedy group, (.*) for (.*?): the body runs to the last
\* closing tag of the fragment
MermaidMatchGreedy(s) ==
    LET g == FirstIn(s, 2, HasGt)
        c == IF \E i \in (g + 2)..Len(s) : s[i] = CodeClose
             THEN CHOOSE i \in (g + 2)..Len(s) :
                     s[i] = CodeClose /\ \A j \in (i + 1)..Len(s) : s[j] # CodeClose
             ELSE 0
    IN  IF s # <<>> /\ s[1] = PreOpen /\ g # 0 /\ s[g] \in EndsTag
           /\ Len(s) > g /\ s[g + 1] = CodeMermaid /\ c # 0
        THEN [body |-> SubSeq(s, g + 2, c - 1), len |-> c]
        ELSE [body |-> <<>>, len |-> 0]

\* the match of the pattern
\*   <pre[^>]*><code class="language-mermaid">(.*?)</code></pre>   (re.DOTALL)
\* at the start of s: [body |-> group 1, len |-> length of the match], len = 0 if none
MermaidMatch(s) ==
    LET g == FirstIn(s, 2, HasGt)
        c == FirstIn(s, g + 2, {CodeClose})
    IN  IF s # <<>> /\ s[1] = PreOpen /\ g # 0 /\ s[g] \in EndsTag
           /\ Len(s) > g /\ s[g + 1] = CodeMermaid /\ c # 0
        THEN [body |-> SubSeq(s, g + 2, c - 1), len |-> c]
        ELSE [body |-> <<>>, len |-> 0]

\* lines 451-455
replace_mermaid(body) == <<DivOpen>> \o unescape(body) \o <<DivClose>>

\* lines 442-460: re.sub over the whole fragment, leftmost matches first
RECURSIVE process_mermaid_blocks(_)
process_mermaid_blocks(s) ==
    IF s = <<>> THEN <<>>
    ELSE IF MermaidMatch(s).len # 0
         THEN replace_mermaid(MermaidMatch(s).body)
                \o process_mermaid_blocks(SubSeq(s, MermaidMatch(s).len + 1, Len(s)))
         ELSE <<s[1]>> \o process_mermaid_blocks(Tail(s))


-----------------------------------------------------------------------------
(* Title, breadcrumb and template                                          *)

Documentation == <<"Documentation">>

\* derive_title removing one heading marker only
derive_title_one_marker(c) ==
    IF StartsWith(c, <<"#">>)
    THEN Strip(Tail(SplitHead(c, "\n")), Whitespace)
    ELSE Documentation

\* derive_title looking for the marker after leading whitespace
derive_title_after_whitespace(c) ==
    IF StartsWith(LStrip(c, Whitespace), <<"#">>)
    THEN Strip(LStrip(SplitHead(LStrip(c, Whitespace), "\n"), {"#"}), Whitespace)
    ELSE Documentation

\* lines 417-419
derive_title(c) ==
    IF StartsWith(c, <<"#">>)
    THEN Strip(LStrip(SplitHead(c, "\n"), {"#"}), Whitespace)
    ELSE Documentation

LowerLetters == <<"a", "b", "c", "d", "e", "g", "h", "i", "l", "m", "n", "p", "s", "t", "x">>
UpperLetters == <<"A", "B", "C", "D", "E", "G", "H", "I", "L", "M", "N", "P", "S", "T", "X">>
IsLower(c) == \E i \in 1..Len(LowerLetters) : LowerLetters[i] = c
IsUpper(c) == \E i \in 1..Len(UpperLetters) : UpperLetters[i] = c
IsCased(c) == IsLower(c) \/ IsUpper(c)
ToUpper(c) == IF IsLower(c) THEN UpperLetters[CHOOSE i \in 1..Len(LowerLetters) : LowerLetters[i] = c] ELSE c
ToLower(c) == IF IsUpper(c) THEN LowerLetters[CHOOSE i \in 1..Len(UpperLetters) : UpperLetters[i] = c] ELSE c

\* str.replace('_', ' ')
RECURSIVE ReplaceUnderscores(_)
ReplaceUnderscores(s) ==
    IF s = <<>> THEN <<>>
    ELSE <<IF s[1] = "_" THEN " " ELSE s[1]>> \o ReplaceUnderscores(Tail(s))

\* str.title(): a cased character is upper-cased after an uncased one (or at
\* the start) and lower-cased after a cased one
RECURSIVE TitleCase(_, _)
TitleCase(s, prevCased) ==
    IF s = <<>> THEN <<>>
    ELSE <<IF prevCased THEN ToLower(s[1]) ELSE ToUpper(s[1])>>
           \o TitleCase(Tail(s), IsCased(s[1]))

\* line 470
part_name(part) == TitleCase(ReplaceUnderscores(part), FALSE)

AnchorOpen == "<a href=\""
AnchorMid == "\">"
AnchorClose == "</a>"
BreadcrumbOpen == "<div class=\"breadcrumb\">"
Separator == " > "

Anchor(href, label) == <<AnchorOpen>> \o href \o <<AnchorMid>> \o label \o <<AnchorClose>>

\* line 465
HomeAnchor == Anchor(<<"/">>, <<"H", "o", "m", "e">>)

\* DirectoryAnchors with each link made of its own segment only
RECURSIVE DirectoryAnchorsFlat(_, _)
DirectoryAnchorsFlat(parts, current_path) ==
    IF parts = <<>> THEN <<>>
    ELSE <<Separator>> \o Anchor(<<"/">> \o Head(parts) \o <<"/">>, part_name(Head(parts)))
            \o DirectoryAnchorsFlat(Tail(parts), current_path)

\* lines 467-471: the entries after Home, each led by the separator of the join
RECURSIVE DirectoryAnchors(_, _)
DirectoryAnchors(parts, current_path) ==
    IF parts = <<>> THEN <<>>
    ELSE LET cp == current_path \o <<"/">> \o Head(parts)
         IN  <<Separator>> \o Anchor(cp \o <<"/">>, part_name(Head(parts)))
                \o DirectoryAnchors(Tail(parts), cp)

\* generate_breadcrumb returning the container whatever it holds
generate_breadcrumb_container(p) ==
    LET parts == Split(Strip(p, {"/"}), "/")
        dirs == SubSeq(parts, 1, Len(parts) - 1)
    IN  <<BreadcrumbOpen>> \o HomeAnchor \o DirectoryAnchors(dirs, <<>>) \o <<DivClose>>

\* lines 462-475
generate_breadcrumb(p) ==
    LET parts == Split(Strip(p, {"/"}), "/")
        dirs == SubSeq(parts, 1, Len(parts) - 1)
    IN  IF Len(dirs) + 1 > 1
        THEN <<BreadcrumbOpen>> \o HomeAnchor \o DirectoryAnchors(dirs, <<>>) \o <<DivClose>>
        ELSE <<>>

\* lines 425-428: HTML_TEMPLATE.format(title=..., content=breadcrumb + <div class="content">...)
ComposeTemplate(t, bc, html) ==
    <<"<!DOCTYPE html>...<title>">> \o t \o <<" - Dashcam Documentation</title>...<main class=\"main-content\">">>
        \o bc \o <<"<div class=\"content\">">> \o html \o <<DivClose>>
        \o <<"</main>...</html>">>


-----------------------------------------------------------------------------
(* Inputs: requests, file systems, documents                               *)

MaxTitleLen == 4
MaxBlocks == 3
MaxPathLen == 5

SeqsUpTo(A, n) == UNION {[1..k -> A] : k \in 0..n}

File(segs, name) == docs_root_segs \o segs \o <<name>>

\* a documentation tree with sources, static files, and a file outside the root
FsDocs ==
    { File(<<>>, <<"i", "n", "d", "e", "x">> \o DotMd),
      File(<<>>, <<"g">> \o DotMd),
      File(<<>>, <<"g">> \o DotHtml),
      File(<< <<"a">> >>, <<"b">> \o DotMd),
      File(<< <<"a", "_", "b">>, <<"c">> >>, <<"e">> \o DotMd),
      File(<<>>, <<"p">> \o DotHtml),
      File(<<>>, <<"s", ".", "c", "s", "s">>),
      << <<"s">> \o DotMd >> }

\* a tree of static files only
FsStatic ==
    { File(<<>>, <<"i", "n", "d", "e", "x">> \o DotHtml),
      File(<<>>, <<"p">> \o DotHtml),
      File(<< <<"a">> >>, <<"x", ".", "c", "s", "s">>),
      File(<<>>, <<"s", ".", "c", "s", "s">>) }

RequestPaths ==
    { <<"/">>,
      IndexHtml,
      <<"/", "g">> \o DotHtml,
      <<"/", "a", "/", "b">> \o DotHtml,
      <<"/", "a", "_", "b", "/", "c", "/", "e">> \o DotHtml,
      <<"/", "p">> \o DotHtml,
      <<"/", "m">> \o DotHtml,
      <<"/", "s", ".", "c", "s", "s">>,
      <<"/", "a">>,
      <<"/", "a", "/">>,
      <<"/", "%", "2", "F", "s">> \o DotHtml,
      <<"/", ".", ".", "/", "s">> \o DotHtml,
      <<"/", "g", "%", "3", "F", "x">> \o DotHtml,
      <<"/", "a", "/", "/", "b">> \o DotHtml,
      <<"/", ".", "/", "g">> \o DotHtml }

Queries == { <<>>, <<"?", "q">>, <<"?", "x">> \o DotHtml }
Fragments == { <<>>, <<"#", "f">>, <<"#", "f", "?", "z">> }

\* a document: a sequence of blocks, each plain text or a fenced block
Block(kind, body) == [kind |-> kind, body |-> body]

\* the source text of a document
RECURSIVE RawOf(_)
RawOf(d) ==
    IF d = <<>> THEN <<>>
    ELSE (CASE Head(d).kind = "text" -> Head(d).body
            [] Head(d).kind = "mermaid" -> <<FenceMermaid, "\n">> \o Head(d).body \o <<Fence, "\n">>
            [] Head(d).kind = "python" -> <<FencePython, "\n">> \o Head(d).body \o <<Fence, "\n">>)
         \o RawOf(Tail(d))

\* block bodies: whole lines, one of them of two lines, some with characters
\* the encoder escapes and one that reads like an entity
Bodies ==
    { <<>>,
      <<"x", "\n">>,
      <<"a", "&", "b", "\n">>,
      <<"<", "\n", "x", ">", "\n">>,
      <<"&", "l", "t", ";", "\n">> }

Blocks == {Block(k, b) : k \in {"text", "mermaid", "python"}, b \in Bodies}

DiagramDocs == SeqsUpTo(Blocks, MaxBlocks)

TitleDocs == {<<Block("text", t)>> : t \in SeqsUpTo({"#", " ", "\n", "x"}, MaxTitleLen)}

SmallDocs ==
    { <<>>,
      <<Block("text", <<"#", " ", "x", "\n">>), Block("mermaid", <<"a", "&", "b", "\n">>)>>,
      <<Block("text", <<"x", "\n">>)>>,
      <<Block("text", <<"#", "#", " ", "x", "\n">>), Block("python", <<"x", "\n">>)>> }

Corpus(tag) ==
    CASE tag = "small" -> SmallDocs
      [] tag = "titles" -> TitleDocs
      [] tag = "diagrams" -> DiagramDocs

-----------------------------------------------------------------------------
(* The handler                                                             *)

\* the statements of the try block of serve_markdown, lines 396-436, in order
TryStages == <<"read", "convert", "mermaid", "title", "breadcrumb", "template",
               "send_headers", "write_body">>

\* After with the title derived before the diagrams are transformed
AfterTitleFirst(p) ==
    CASE p = "convert" -> "title"
      [] p = "title" -> "mermaid"
      [] p = "mermaid" -> "breadcrumb"
      [] p = TryStages[Len(TryStages)] -> "done"
      [] OTHER -> TryStages[(CHOOSE i \in 1..Len(TryStages) : TryStages[i] = p) + 1]

\* the position after the statement at position p
After(p) ==
    IF p = TryStages[Len(TryStages)] THEN "done"
    ELSE TryStages[(CHOOSE i \in 1..Len(TryStages) : TryStages[i] = p) + 1]

\* the stage of the render sequence a position belongs to
StageOf(p) ==
    CASE p = "read" -> "read"
      [] p = "convert" -> "render-markdown"
      [] p = "mermaid" -> "transform-diagrams"
      [] p = "title" -> "derive-title"
      [] p = "breadcrumb" -> "synthesize-breadcrumb"
      [] p = "template" -> "compose-template"
      [] p \in {"send_headers", "write_body"} -> "respond"

Started(st, stage) == IF st # <<>> /\ st[Len(st)] = stage THEN st ELSE Append(st, stage)

Exceptions == {"OSError", "ValueError"}

SuccessHeaders == Response("headers", 200, <<"Content-type: text/html; charset=utf-8">>)

\* a handler that has not run yet
Fresh ==
    /\ pc = "do_GET"
    /\ path = <<>> /\ md_path = <<>> /\ file_path = <<>>
    /\ doc = <<>> /\ content = <<>> /\ html_content = <<>>
    /\ title = <<>> /\ breadcrumb = <<>> /\ full_html = <<>>
    /\ handled = "none" /\ exc = "none"
    /\ stages = <<>> /\ wire = <<>>

Faults == {"none"} \cup {TryStages[i] : i \in 1..Len(TryStages)}

\* any request of the pool, on either tree, with or without the renderer, a
\* small document on disk, and an exception at any one statement or none
Init ==
    /\ req \in [path : RequestPaths, query : Queries, frag : Fragments]
    /\ rawPath = req.path \o req.query \o req.frag
    /\ files \in {FsDocs, FsStatic}
    /\ MARKDOWN_AVAILABLE \in BOOLEAN
    /\ corpus = "small"
    /\ fault \in Faults
    /\ Fresh

\* lines 358-376, up to the call of serve_markdown
do_GET ==
    /\ pc = "do_GET"
    /\ path' = NormalizePath(rawPath)
    /\ IF EndsWith(path', DotHtml)
       THEN md_path' = MdPathOf(path') /\ pc' = "serve_markdown"
       ELSE md_path' = <<>> /\ pc' = "static"
    /\ UNCHANGED <<req, rawPath, files, MARKDOWN_AVAILABLE, corpus, fault, file_path, doc,
                   content, html_content, title, breadcrumb, full_html, handled, exc,
                   stages, wire>>

\* lines 383-394: the availability check, then the existence check
serve_markdown ==
    /\ pc = "serve_markdown"
    /\ IF ~MARKDOWN_AVAILABLE
       THEN /\ wire' = Append(wire, Response("error", 500, <<"Markdown rendering not available">>))
            /\ handled' = "true"
            /\ pc' = "done"
            /\ UNCHANGED <<file_path, stages>>
       ELSE /\ file_path' = PathJoin(docs_root, RelPathOf(md_path))
            /\ stages' = Append(stages, "resolve")
            /\ IF Exists(files, file_path')
               THEN pc' = "read" /\ UNCHANGED handled
               ELSE pc' = "static" /\ handled' = "false"
            /\ UNCHANGED wire
    /\ UNCHANGED <<req, rawPath, files, MARKDOWN_AVAILABLE, corpus, fault, path, md_path, doc,
                   content, html_content, title, breadcrumb, full_html, exc>>

\* a statement of the try block runs to its end
Runs(p) == pc = p /\ fault # p /\ pc' = After(p) /\ stages' = Started(stages, StageOf(p))

\* lines 398-399
ReadSource ==
    /\ Runs("read")
    /\ IsFile(files, file_path)
    /\ \E d \in Corpus(corpus) : doc' = d /\ content' = RawOf(d)
    /\ UNCHANGED <<req, rawPath, files, MARKDOWN_AVAILABLE, corpus, fault, path, md_path,
                   file_path, html_content, title, breadcrumb, full_html, handled, exc, wire>>

\* lines 402-411
ConvertMarkdown ==
    /\ Runs("convert")
    /\ html_content' = MdConvert(content, TRUE)
    /\ UNCHANGED <<req, rawPath, files, MARKDOWN_AVAILABLE, corpus, fault, path, md_path,
                   file_path, doc, content, title, breadcrumb, full_html, handled, exc, wire>>

\* line 414
TransformDiagrams ==
    /\ Runs("mermaid")
    /\ html_content' = process_mermaid_blocks(html_content)
    /\ UNCHANGED <<req, rawPath, files, MARKDOWN_AVAILABLE, corpus, fault, path, md_path,
                   file_path, doc, content, title, breadcrumb, full_html, handled, exc, wire>>

\* lines 417-419
DeriveTitle ==
    /\ Runs("title")
    /\ title' = derive_title(content)
    /\ UNCHANGED <<req, rawPath, files, MARKDOWN_AVAILABLE, corpus, fault, path, md_path,
                   file_path, doc, content, html_content, breadcrumb, full_html, handled, exc,
                   wire>>

\* line 422
SynthesizeBreadcrumb ==
    /\ Runs("breadcrumb")
    /\ breadcrumb' = generate_breadcrumb(RelPathOf(md_path))
    /\ UNCHANGED <<req, rawPath, files, MARKDOWN_AVAILABLE, corpus, fault, path, md_path,
                   file_path, doc, content, html_content, title, full_html, handled, exc, wire>>

\* lines 425-428
Compose ==
    /\ Runs("template")
    /\ full_html' = ComposeTemplate(title, breadcrumb, html_content)
    /\ UNCHANGED <<req, rawPath, files, MARKDOWN_AVAILABLE, corpus, fault, path, md_path,
                   file_path, doc, content, html_content, title, breadcrumb, handled, exc,
                   wire>>

\* lines 431-433: status line and headers, written at end_headers
SendHeaders ==
    /\ Runs("send_headers")
    /\ wire' = Append(wire, SuccessHeaders)
    /\ UNCHANGED <<req, rawPath, files, MARKDOWN_AVAILABLE, corpus, fault, path, md_path,
                   file_path, doc, content, html_content, title, breadcrumb, full_html,
                   handled, exc>>

\* lines 434-436
WriteBody ==
    /\ Runs("write_body")
    /\ wire' = Append(wire, Response("body", 200, full_html))
    /\ handled' = "true"
    /\ UNCHANGED <<req, rawPath, files, MARKDOWN_AVAILABLE, corpus, fault, path, md_path,
                   file_path, doc, content, html_content, title, breadcrumb, full_html, exc>>

\* What the failing statement had written when it raised. The headers are
\* buffered until end_headers: an exception before it leaves nothing, one at
\* its write leaves them in the buffer, which send_error then writes ahead of
\* its own. A failing write of the body may have written a part of it.
WrittenAtFailure(p) ==
    CASE p = "send_headers" -> {<<>>, <<SuccessHeaders>>}
      [] p = "write_body" -> {<<>>, <<Response("partial-body", 200, <<>>)>>}
      [] OTHER -> {<<>>}

ErrorResponse(e) == Response("error", 500, <<"Error rendering markdown: ", e>>)

\* RenderFails with the handler returning False after the error response
RenderFailsUnhandled ==
    /\ \E i \in 1..Len(TryStages) : pc = TryStages[i]
    /\ fault = pc \/ (pc = "read" /\ ~IsFile(files, file_path))
    /\ \E e \in Exceptions, w \in WrittenAtFailure(pc) :
          /\ exc' = e
          /\ wire' = wire \o w \o <<ErrorResponse(e)>>
    /\ stages' = Started(stages, StageOf(pc))
    /\ handled' = "false"
    /\ pc' = "static"
    /\ UNCHANGED <<req, rawPath, files, MARKDOWN_AVAILABLE, corpus, fault, path, md_path,
                   file_path, doc, content, html_content, title, breadcrumb, full_html>>

\* lines 438-440: a statement of the try block raises; open() raises on a directory
RenderFails ==
    /\ \E i \in 1..Len(TryStages) : pc = TryStages[i]
    /\ fault = pc \/ (pc = "read" /\ ~IsFile(files, file_path))
    /\ \E e \in Exceptions, w \in WrittenAtFailure(pc) :
          /\ exc' = e
          /\ wire' = wire \o w \o <<ErrorResponse(e)>>
    /\ stages' = Started(stages, StageOf(pc))
    /\ handled' = "true"
    /\ pc' = "done"
    /\ UNCHANGED <<req, rawPath, files, MARKDOWN_AVAILABLE, corpus, fault, path, md_path,
                   file_path, doc, content, html_content, title, breadcrumb, full_html>>

\* line 379
ServeStatic ==
    /\ pc = "static"
    /\ wire' = Append(wire, StaticResponse(files, rawPath))
    /\ pc' = "done"
    /\ UNCHANGED <<req, rawPath, files, MARKDOWN_AVAILABLE, corpus, fault, path, md_path,
                   file_path, doc, content, html_content, title, breadcrumb, full_html,
                   handled, exc, stages>>

Next ==
    \/ do_GET
    \/ serve_markdown
    \/ ReadSource
    \/ ConvertMarkdown
    \/ TransformDiagrams
    \/ DeriveTitle
    \/ SynthesizeBreadcrumb
    \/ Compose
    \/ SendHeaders
    \/ WriteBody
    \/ RenderFails
    \/ ServeStatic

Spec == Init /\ [][Next]_vars


-----------------------------------------------------------------------------
(* Specifications for the pure steps: the same handler, with the input of  *)
(* the step drawn from every value within a bound                          *)

PlainRequest(p) == [path |-> p, query |-> <<>>, frag |-> <<>>]

\* a rendered page and a static file, the source of the page being any
\* sequence of at most MaxTitleLen characters
InitTitle ==
    /\ req \in {PlainRequest(<<"/", "g">> \o DotHtml), PlainRequest(<<"/", "s", ".", "c", "s", "s">>)}
    /\ rawPath = req.path
    /\ files = FsDocs
    /\ MARKDOWN_AVAILABLE \in BOOLEAN
    /\ corpus = "titles"
    /\ fault \in {"none", "read"}
    /\ Fresh

SpecTitle == InitTitle /\ [][Next]_vars

\* the same, the source being any document of at most MaxBlocks blocks
InitMermaid ==
    /\ req \in {PlainRequest(<<"/", "g">> \o DotHtml), PlainRequest(<<"/", "s", ".", "c", "s", "s">>)}
    /\ rawPath = req.path
    /\ files = FsDocs
    /\ MARKDOWN_AVAILABLE \in BOOLEAN
    /\ corpus = "diagrams"
    /\ fault \in {"none", "read"}
    /\ Fresh

SpecMermaid == InitMermaid /\ [][Next]_vars

\* the request paths /<s>e.html, s any sequence of at most MaxPathLen
\* characters of a separator, two letters and an underscore
BreadcrumbPaths ==
    {<<"/">> \o s \o <<"e">> \o DotHtml : s \in SeqsUpTo({"/", "a", "B", "_"}, MaxPathLen)}

\* the file a request path of BreadcrumbPaths is rendered from
SourceOf(p) == NormComps(<<>>, Split(PathJoin(docs_root, RelPathOf(MdPathOf(p))), "/"))

\* each request on a tree that holds its source, or on an empty one
InitBreadcrumb ==
    /\ req \in {PlainRequest(p) : p \in BreadcrumbPaths}
    /\ rawPath = req.path
    /\ files \in {{SourceOf(req.path)}, {}}
    /\ MARKDOWN_AVAILABLE \in BOOLEAN
    /\ corpus = "small"
    /\ fault \in {"none", "read"}
    /\ Fresh

SpecBreadcrumb == InitBreadcrumb /\ [][Next]_vars


-----------------------------------------------------------------------------
(* Properties                                                              *)

Range(q) == {q[i] : i \in 1..Len(q)}
Last(q) == q[Len(q)]
Kinds(w) == [i \in 1..Len(w) |-> w[i].kind]

\* the order of the stages of a render
StageOrder == <<"resolve", "read", "render-markdown", "transform-diagrams", "derive-title",
                "synthesize-breadcrumb", "compose-template", "respond">>

\* stage has run to its end: it started, and it is not the one that raised
Completed(stage) ==
    stage \in Range(stages) /\ ~(exc # "none" /\ Last(stages) = stage)

\* the source named by the request path: the path component, decoded, with
\* .html replaced by .md, below the documentation root
SourcePathOf(p) ==
    LET d == unquote(p)
        n == IF d = <<"/">> THEN IndexHtml ELSE d
    IN  docs_root \o MdPathOf(n)

\* C1: The stages of a render start in the fixed order resolve, read,
\* render-markdown, transform-diagrams, derive-title, synthesize-breadcrumb,
\* compose-template, respond: a step starts no stage or exactly the next one of
\* the order (so none runs twice, early or out of order, and the diagram
\* transformation runs once, after the markdown rendering and before the
\* breadcrumb and the template); a step in which a stage fails ends the
\* request with the error response written last; after a failure nothing
\* changes any more; and a render that ends without a failure has run every stage.
C1_StagesInOrder ==
    [][ /\ \/ stages' = stages
           \/ /\ Len(stages) < Len(StageOrder)
              /\ stages' = Append(stages, StageOrder[Len(stages) + 1])
        /\ exc = "none"
        /\ exc' # "none" =>
              /\ pc' = "done"
              /\ Last(wire').kind = "error" /\ Last(wire').status = 500
        /\ (pc' = "done" /\ exc' = "none" /\ handled' = "true" /\ MARKDOWN_AVAILABLE) =>
              stages' = StageOrder
      ]_vars

\* a render that ran every stage and wrote the page
C1_Witness ==
    /\ pc = "done" /\ exc = "none"
    /\ stages = StageOrder
    /\ Kinds(wire) = <<"headers", "body">>

\* C2: at every moment of a request handled by serve_markdown, the client has
\* been sent nothing yet, the success headers alone (the body being under
\* way), the whole success response, or one error response alone; once
\* serve_markdown has returned, it is the whole success response or the error
\* response alone.
C2_AllOrNothing ==
    /\ Kinds(wire) \in {<<>>, <<"headers">>, <<"headers", "body">>, <<"error">>,
                        <<"static">>, <<"listing">>, <<"redirect">>}
    /\ handled = "true" =>
          \/ Kinds(wire) = <<"error">>
          \/ /\ Kinds(wire) = <<"headers", "body">>
             /\ wire[1] = SuccessHeaders
             /\ wire[2].status = 200 /\ wire[2].data = full_html

\* C3: a request whose path ends in .html, with neither its source nor a static
\* file of that path on disk, is answered 404 and starts no stage of the
\* render after the resolution.
C3_MissingIs404 ==
    (/\ pc = "done"
     /\ EndsWith(req.path, DotHtml)
     /\ ~Exists(files, SourcePathOf(req.path))
     /\ StaticResponse(files, req.path).status = 404)
    => /\ Kinds(wire) = <<"error">>
       /\ wire[1].status = 404
       /\ Range(stages) \subseteq {"resolve"}

\* C4: when a statement of the render sequence has raised, the request is over,
\* the last thing written is one status 500 error response whose message holds
\* the exception's text, serve_markdown has returned True, no static response
\* was written, and no stage has run twice.
C4_FailureIsTerminal ==
    exc # "none" =>
       /\ pc = "done"
       /\ handled = "true"
       /\ Last(wire).kind = "error" /\ Last(wire).status = 500
       /\ exc \in Range(Last(wire).data)
       /\ Cardinality({i \in 1..Len(wire) : wire[i].kind = "error"}) = 1
       /\ \A i \in 1..Len(wire) : wire[i].kind \notin {"static", "listing", "redirect"}
       /\ \A i, j \in 1..Len(stages) : stages[i] = stages[j] => i = j

\* a failure of the diagram transformation, answered with the error response
C4_Witness ==
    /\ exc # "none"
    /\ Last(stages) = "transform-diagrams"
    /\ Kinds(wire) = <<"error">>

\* C5: without the markdown renderer, a request is answered with the fixed
\* status 500 message when it has a markdown source, and a request that has
\* none and names an existing static file is answered with that file.
C5_StaticStillServed ==
    (pc = "done" /\ ~MARKDOWN_AVAILABLE) =>
       /\ (EndsWith(path, DotHtml) /\ Exists(files, SourcePathOf(req.path))) =>
             /\ Kinds(wire) = <<"error">>
             /\ wire[1].status = 500
             /\ wire[1].data = <<"Markdown rendering not available">>
       /\ (~Exists(files, SourcePathOf(req.path))
           /\ StaticResponse(files, req.path).kind = "static") =>
             /\ Kinds(wire) = <<"static">>
             /\ wire[1].status = 200

\* C6: the normalised path is that of the path component alone, whatever the
\* query and the fragment; "/" is normalised to /index.html; a normalised path
\* ending in .html is given to the renderer as the path with .html replaced
\* by .md, and the file looked up is that path below the documentation root;
\* a path not ending in .html is never given to the renderer.
C6_Resolution ==
    pc # "do_GET" =>
       /\ path = NormalizePath(req.path)
       /\ req.path = <<"/">> => path = IndexHtml
       /\ EndsWith(path, DotHtml) =>
             /\ md_path = SubSeq(path, 1, Len(path) - 5) \o DotMd
             /\ file_path # <<>> => file_path = docs_root \o md_path
       /\ ~EndsWith(path, DotHtml) =>
             /\ md_path = <<>> /\ file_path = <<>> /\ stages = <<>>
             /\ handled = "none"


Count(q, x) == Cardinality({i \in 1..Len(q) : q[i] = x})

\* what the renderer writes for a block, and what the page holds for it
RenderedBlock(b) ==
    CASE b.kind = "text" -> Escape(b.body)
      [] b.kind = "mermaid" -> <<PreOpen, PreAttr, Gt, CodeMermaid>> \o Escape(b.body) \o <<CodeClose>>
      [] b.kind = "python" -> <<PreOpen, PreAttr, Gt, CodePython>> \o Escape(b.body) \o <<CodeClose>>

PageBlock(b) ==
    IF b.kind = "mermaid" THEN <<DivOpen>> \o b.body \o <<DivClose>> ELSE RenderedBlock(b)

MermaidBlocks(d) == {i \in 1..Len(d) : d[i].kind = "mermaid"}

\* C7: the rendered fragment of a document is the sequence of its rendered
\* blocks, each diagram block a <pre ...><code class="language-mermaid"> span;
\* after the transformation the fragment is the same sequence with each such
\* span replaced by a mermaid div that holds the diagram's source verbatim and
\* every other block as rendered; there are as many mermaid divs as diagram
\* blocks, and a fragment without a span is unchanged.
C7_DiagramsReplaced ==
    Completed("transform-diagrams") =>
       /\ MdConvert(content, TRUE) = Concat([i \in 1..Len(doc) |-> RenderedBlock(doc[i])])
       /\ html_content = Concat([i \in 1..Len(doc) |-> PageBlock(doc[i])])
       /\ Count(html_content, DivOpen) = Cardinality(MermaidBlocks(doc))
       /\ Count(html_content, CodeMermaid) = 0
       /\ MermaidBlocks(doc) = {} => html_content = MdConvert(content, TRUE)

\* two diagrams transformed, with text between them: one of two lines with
\* escaped characters, one whose source reads like an entity
C7_Witness ==
    /\ Completed("transform-diagrams")
    /\ doc = <<Block("mermaid", <<"<", "\n", "x", ">", "\n">>),
               Block("text", <<"a", "&", "b", "\n">>),
               Block("mermaid", <<"&", "l", "t", ";", "\n">>)>>
    /\ Count(html_content, DivOpen) = 2

\* the path serve_markdown gives to generate_breadcrumb
ResolvedPath == RelPathOf(md_path)

\* a path has a directory segment: a separator with a name before and after it
HasDirectory(p) ==
    \E i, j, k \in 1..Len(p) : i < j /\ j < k /\ p[i] # "/" /\ p[j] = "/" /\ p[k] # "/"

\* C8: the breadcrumb is the empty string exactly when the resolved path has
\* no directory segment; otherwise it is one container, opened and closed
\* once, that holds the Home entry and at least one more.
C8_BreadcrumbEmptiness ==
    Completed("synthesize-breadcrumb") =>
       /\ breadcrumb = <<>> <=> ~HasDirectory(ResolvedPath)
       /\ breadcrumb # <<>> =>
             /\ breadcrumb[1] = BreadcrumbOpen /\ Last(breadcrumb) = DivClose
             /\ Count(breadcrumb, BreadcrumbOpen) = 1 /\ Count(breadcrumb, DivClose) = 1
             /\ Count(breadcrumb, AnchorOpen) >= 2

\* a page directly below the root, rendered with no breadcrumb
C8_Witness ==
    /\ Completed("synthesize-breadcrumb")
    /\ ~HasDirectory(ResolvedPath)
    /\ breadcrumb = <<>>
    /\ pc = "done" /\ Kinds(wire) = <<"headers", "body">>

\* the path without the separators around it, and the places of its separators
Trimmed(p) ==
    LET inside == {i \in 1..Len(p) : p[i] # "/"}
    IN  IF inside = {} THEN <<>>
        ELSE SubSeq(p, CHOOSE i \in inside : \A j \in inside : i <= j,
                       CHOOSE i \in inside : \A j \in inside : i >= j)

SeparatorsOf(p) == {i \in 1..Len(p) : p[i] = "/"}

\* the place of the n-th separator of p
NthSeparator(p, n) ==
    CHOOSE i \in SeparatorsOf(p) : Cardinality({j \in SeparatorsOf(p) : j <= i}) = n

\* the n-th directory segment of p: what stands between separators n-1 and n
Segment(p, n) ==
    SubSeq(p, IF n = 1 THEN 1 ELSE NthSeparator(p, n - 1) + 1, NthSeparator(p, n) - 1)

\* a segment's label: underscores are spaces, a letter is upper case at the
\* start of a word and lower case inside one
LabelOf(seg) ==
    [j \in 1..Len(seg) |->
        IF seg[j] = "_" THEN " "
        ELSE IF j > 1 /\ IsCased(seg[j - 1]) THEN ToLower(seg[j])
        ELSE ToUpper(seg[j])]

\* C9: for a resolved path with n >= 1 directory segments before the file name,
\* the breadcrumb holds exactly n + 1 entries, joined by the separator: Home,
\* linking to "/", then for i = 1..n the entry that links to the path up to and
\* including the i-th segment, "/s1/.../si/", labelled with the i-th segment's
\* label; the file name gives no entry.
C9_BreadcrumbEntries ==
    LET p == Trimmed(ResolvedPath)
        n == Cardinality(SeparatorsOf(p))
        entry(i) == <<Separator>>
                      \o Anchor(<<"/">> \o SubSeq(p, 1, NthSeparator(p, i)), LabelOf(Segment(p, i)))
    IN  (Completed("synthesize-breadcrumb") /\ n >= 1) =>
           /\ breadcrumb = <<BreadcrumbOpen>> \o HomeAnchor
                             \o Concat([i \in 1..n |-> entry(i)]) \o <<DivClose>>
           /\ Count(breadcrumb, AnchorOpen) = n + 1
           /\ Count(breadcrumb, Separator) = n

\* a page two directories deep, the first one's name holding an underscore
C9_Witness ==
    /\ Completed("synthesize-breadcrumb")
    /\ ResolvedPath = <<"_", "a", "/", "B", "/", "e">> \o DotMd
    /\ Count(breadcrumb, AnchorOpen) = 3

FirstLine(c) == SubSeq(c, 1, IF Find(c, "\n") = 0 THEN Len(c) ELSE Find(c, "\n") - 1)

\* a top-level heading: one "#", whitespace, then the heading text
TopLevelHeading(line) ==
    /\ Len(line) >= 3
    /\ line[1] = "#"
    /\ line[2] \in {" ", "\t"}
    /\ \E i \in 3..Len(line) : line[i] \notin Whitespace

\* the number of "#" characters a line begins with
Markers(line) ==
    IF \A i \in 1..Len(line) : line[i] = "#" THEN Len(line)
    ELSE (CHOOSE i \in 1..Len(line) : line[i] # "#" /\ \A j \in 1..(i - 1) : line[j] = "#") - 1

\* t is what is left of the line after its markers, without the whitespace
\* before and after it
RestOfHeading(line, t) ==
    \E a \in 0..Len(line) :
       LET from == Markers(line) + a
       IN  /\ from + Len(t) <= Len(line)
           /\ \A i \in (Markers(line) + 1)..from : line[i] \in Whitespace
           /\ t = SubSeq(line, from + 1, from + Len(t))
           /\ \A i \in (from + Len(t) + 1)..Len(line) : line[i] \in Whitespace
           /\ t # <<>> => t[1] \notin Whitespace /\ Last(t) \notin Whitespace

StripQueryAndFragment(raw) ==
    IF \E i \in 1..Len(raw) : raw[i] \in {"?", "#"}
    THEN SubSeq(raw, 1, (CHOOSE i \in 1..Len(raw) :
                            raw[i] \in {"?", "#"} /\ \A j \in 1..(i - 1) : raw[j] \notin {"?", "#"}) - 1)
    ELSE raw

\* C12: the normalised path is the raw request path with its query string and
\* fragment removed, then percent-decoded, then "/" mapped to /index.html: an
\* encoded "?" or "#" (%3F, %23) of the path stays in the path as a literal
\* character and starts no query or fragment.
C12_StripThenDecode ==
    pc # "do_GET" =>
       LET decoded == unquote(StripQueryAndFragment(rawPath))
       IN  path = IF decoded = <<"/">> THEN IndexHtml ELSE decoded

\* C13: the file whose existence serve_markdown checks, and which it reads
\* and renders, lies inside the documentation root, whatever the request
\* path: ".." segments and more than one leading "/" included.
C13_RootContainment ==
    file_path # <<>> =>
       LET segs == NormComps(<<>>, Split(file_path, "/"))
       IN  /\ Len(segs) > Len(docs_root_segs)
           /\ SubSeq(segs, 1, Len(docs_root_segs)) = docs_root_segs

=============================================================================
